---- MODULE Spec2Model ----
(***************************************************************************)
(* The quantitative decision engine of the inventory optimisation system:  *)
(* utils/forecasting.py, utils/inventory_optimizer.py and                  *)
(* utils/price_optimizer.py.                                               *)
(*                                                                         *)
(* Every operation of these modules is a function call that returns a      *)
(* result record; the only state that survives a call is the state of      *)
(* Python's module-level random generator (rng).  The caller is            *)
(* sequential: it makes a call, holds the record the call returned (res),  *)
(* and then either keeps that record for a later comparison (prev) or      *)
(* drops it, before it makes the next call.  Worker threads that call the  *)
(* forecaster at the same time are modelled statement by statement: calls  *)
(* holds the position and the local variables of each thread's call.       *)
(*                                                                         *)
(* Numbers.  The code computes in binary floating point; the model         *)
(* computes the same expressions exactly, in fixed point:                  *)
(*   - names ending in 10 are tenths (the code's round(x, 1)),             *)
(*   - names ending in 100 are hundredths (the code's round(x, 2)),        *)
(*   - names ending in 1000 are thousandths (service levels,               *)
(*     probabilities).                                                     *)
(***************************************************************************)
EXTENDS Integers, Sequences, FiniteSets, TLC

VARIABLES res, prev, rng, calls

vars == <<res, prev, rng, calls>>

(***************************************************************************)
(* Bounds of the model.                                                    *)
(***************************************************************************)
MaxStores == 2
MaxStock == 5

(***************************************************************************)
(* Identifiers.  A product or store id is an integer 1, 2, ...; NoneId     *)
(* stands for an id that is not a number (None, a string), on which        *)
(* product_id * 1000 + store_id raises TypeError.                          *)
(***************************************************************************)
NoneId == 0

ProductIds == {NoneId, 1}

StoreIds == 0..MaxStores

OneStore == {NoneId, 1}

ValidIds(product_id, store_id) == product_id # NoneId /\ store_id # NoneId

(***************************************************************************)
(* Arithmetic helpers.                                                     *)
(***************************************************************************)
\* Python's round(num/den) for den > 0: to the nearest integer, ties to even.
RoundHalfEven(num, den) ==
    LET q == num \div den
        r == num % den
    IN  IF 2 * r > den \/ (2 * r = den /\ q % 2 = 1) THEN q + 1 ELSE q

Min(a, b) == IF a < b THEN a ELSE b

Max(a, b) == IF a > b THEN a ELSE b

\* math.ceil(num/den) for den > 0.
CeilDiv(num, den) == -((-num) \div den)

\* math.floor(math.sqrt(n)) and math.ceil(math.sqrt(n)) for an integer n >= 0.
RECURSIVE FloorSqrtIn(_, _, _)
FloorSqrtIn(lo, hi, n) ==
    IF lo >= hi THEN lo
    ELSE LET mid == (lo + hi + 1) \div 2
         IN  IF mid * mid <= n THEN FloorSqrtIn(mid, hi, n)
             ELSE FloorSqrtIn(lo, mid - 1, n)

FloorSqrt(n) == FloorSqrtIn(0, IF n < 46340 THEN n ELSE 46340, n)

CeilSqrt(n) == IF FloorSqrt(n) * FloorSqrt(n) = n THEN FloorSqrt(n) ELSE FloorSqrt(n) + 1

IsSquare(n) == FloorSqrt(n) * FloorSqrt(n) = n

\* Squares beyond 2^31, as <<millions, thousands, units>>.
Carry(x2, x1, x0) ==
    LET k1 == x1 + x0 \div 1000
    IN  <<x2 + k1 \div 1000, k1 % 1000, x0 % 1000>>

BigSquare(y) == Carry((y \div 1000) * (y \div 1000), 2 * (y \div 1000) * (y % 1000),
                      (y % 1000) * (y % 1000))

BigTimes(t, k) == Carry(t[1] * k, t[2] * k, t[3] * k)

BigLess(s, t) ==
    \/ s[1] < t[1]
    \/ s[1] = t[1] /\ s[2] < t[2]
    \/ s[1] = t[1] /\ s[2] = t[2] /\ s[3] < t[3]

\* y < b * sqrt(n), for y, b, n >= 0
BelowMulSqrt(y, b, n) == BigLess(BigSquare(y), BigTimes(BigSquare(b), n))

\* math.ceil(b * math.sqrt(n)) for integers b, n >= 0: the least y that is
\* not below b * sqrt(n), found by bisection.
RECURSIVE CeilMulSqrtIn(_, _, _, _)
CeilMulSqrtIn(lo, hi, b, n) ==
    IF lo >= hi THEN hi
    ELSE LET mid == (lo + hi) \div 2
         IN  IF BelowMulSqrt(mid, b, n) THEN CeilMulSqrtIn(mid + 1, hi, b, n)
             ELSE CeilMulSqrtIn(lo, mid, b, n)

CeilMulSqrt(b, n) ==
    IF IsSquare(n) THEN b * FloorSqrt(n)
    ELSE CeilMulSqrtIn(b * FloorSqrt(n), b * (FloorSqrt(n) + 1), b, n)

\* math.floor(b * math.sqrt(n))
FloorMulSqrt(b, n) ==
    IF IsSquare(n) \/ b = 0 THEN b * FloorSqrt(n) ELSE CeilMulSqrt(b, n) - 1

\* round(b * math.sqrt(n) / den), den > 0
RoundMulSqrt(b, n, den) ==
    IF IsSquare(n) THEN RoundHalfEven(b * FloorSqrt(n), den)
    ELSE (FloorMulSqrt(2 * b, n) + den) \div (2 * den)

RECURSIVE SumSeq(_)
SumSeq(s) == IF s = <<>> THEN 0 ELSE Head(s) + SumSeq(Tail(s))

(***************************************************************************)
(* Exceptions.  Every operation's body runs inside try/except Exception.   *)
(* A body that raises is the record Raise(kind); TryExcept is the except   *)
(* clause, which turns it into the error record the caller receives.       *)
(* exc is the exception that leaves the call ("none": the call returned),  *)
(* caught the exception the except clause handled.                         *)
(***************************************************************************)
Raise(kind) == [exc |-> kind]

ErrorResult(op, args, message, caught) ==
    [op |-> op, args |-> args, exc |-> "none", caught |-> caught, error |-> message]

TryExceptPropagates(op, args, body, message) ==
    IF body.exc # "none"
    THEN [op |-> op, args |-> args, exc |-> body.exc, caught |-> "none", error |-> "none"]
    ELSE body

TryExcept(op, args, body, message) ==
    IF body.exc # "none" THEN ErrorResult(op, args, message, body.exc) ELSE body

\* res while the caller holds no result.
NoCall == [op |-> "none", exc |-> "none", caught |-> "none", error |-> "none"]

(***************************************************************************)
(* The module-level generator of Python's random module, shared by every   *)
(* call.  Its state is the seed it was last given and the number of values *)
(* drawn since (uniform and normalvariate draw one value each); OsSeed is  *)
(* the state it has before any random.seed call.                           *)
(***************************************************************************)
OsSeed == -1

RngInit == [seed |-> OsSeed, pos |-> 0]

\* random.seed(n)
RandomSeed(n) == [seed |-> n, pos |-> 0]

\* the generator after k more draws
RandomSkip(g, k) == [g EXCEPT !.pos = @ + k]

\* PredictDemandSeed as it would be without the call of random.seed.
PredictDemandUnseeded(g, product_id, store_id) == g

\* random.seed(product_id * 1000 + store_id)
PredictDemandSeed(g, product_id, store_id) == RandomSeed(product_id * 1000 + store_id)

\* The generator after predict_demand(product_id, store_id, days): the seed
\* expression raises before random.seed on an id that is no number;
\* otherwise four uniform draws and one normalvariate draw per day.
PredictDemandRng(g, product_id, store_id, days) ==
    IF ~ValidIds(product_id, store_id) THEN g
    ELSE RandomSkip(PredictDemandSeed(g, product_id, store_id),
                    4 + (IF days > 0 THEN days ELSE 0))

(***************************************************************************)
(* The values drawn.  The generator is deterministic: the value of a draw  *)
(* is a function of the seed and of the number of draws since, here one of *)
(* the levels 0..MaxGen, which uniform spreads over its interval and       *)
(* normalvariate over NormalSpread standard deviations either side of the  *)
(* mean.                                                                   *)
(***************************************************************************)
MaxGen == 2

Gen(g) ==
    LET s == g.seed + 2
    IN  (s * 31 + g.pos * 17 + (s % 11) * (g.pos % 13) + ((g.pos * g.pos) % 7)) % (MaxGen + 1)

\* random.uniform(lo, hi), drawn from g
RandomUniform(g, lo, hi) == lo + ((hi - lo) * Gen(g)) \div MaxGen

NormalSpread == 50

\* random.normalvariate(0, 1), drawn from g, in tenths
RandomNormal(g) == (2 * NormalSpread * Gen(g)) \div MaxGen - NormalSpread

(***************************************************************************)
(* forecasting.py.  Demand is kept in units of 1 / DemandScale; base       *)
(* demand in tenths, the trend in thousandths per day, seasonality and     *)
(* noise level in hundredths.                                              *)
(***************************************************************************)
DemandScale == 2000000

\* base_demand, trend, seasonality and noise_level: four uniform draws
DrawParameters(g, trend_lo, trend_hi, seasonality_lo, seasonality_hi, noise_lo, noise_hi) ==
    [base_demand10 |-> RandomUniform(g, 50, 500),
     trend1000 |-> RandomUniform(RandomSkip(g, 1), trend_lo, trend_hi),
     seasonality100 |-> RandomUniform(RandomSkip(g, 2), seasonality_lo, seasonality_hi),
     noise_level100 |-> RandomUniform(RandomSkip(g, 3), noise_lo, noise_hi)]

\* DayDemand as it would be without max(0, ...).
DayDemandUnclamped(params, elapsed, weekend, z10) ==
    LET t == params.base_demand10 * (1000 + params.trend1000 * elapsed)
        trend_component == 200 * t
        seasonality_component ==
            IF weekend THEN 2 * t * params.seasonality100
            ELSE -(t * params.seasonality100)
        noise == z10 * params.noise_level100 * params.base_demand10 * 200
    IN  trend_component + seasonality_component + noise

\* max(0, trend_component + seasonality_component + noise) of a day that is
\* elapsed days after the first and whose noise is z10 tenths of a standard
\* deviation
DayDemand(params, elapsed, weekend, z10) ==
    LET t == params.base_demand10 * (1000 + params.trend1000 * elapsed)
        trend_component == 200 * t
        seasonality_component ==
            IF weekend THEN 2 * t * params.seasonality100
            ELSE -(t * params.seasonality100)
        noise == z10 * params.noise_level100 * params.base_demand10 * 200
    IN  Max(0, trend_component + seasonality_component + noise)

\* round(day_demand, 1), in tenths
RoundedDemand(day_demand) == RoundHalfEven(day_demand, DemandScale \div 10)

\* sum of (value - avg) ** 2 over the rounded daily values, in 1/10000; the
\* average enters rounded to hundredths
RECURSIVE SquaredDiffs(_, _)
SquaredDiffs(values10, avg100) ==
    IF values10 = <<>> THEN 0
    ELSE (Head(values10) * 10 - avg100) * (Head(values10) * 10 - avg100)
            + SquaredDiffs(Tail(values10), avg100)

\* total, average and standard deviation of days daily values, days # 0;
\* for days < 0 there are no values and every statistic is 0
Statistics(values10, cumulative, days) ==
    LET avg100 == IF days > 0 THEN RoundHalfEven(cumulative, (DemandScale \div 100) * days)
                  ELSE 0
    IN  [total |-> RoundHalfEven(cumulative, DemandScale),
         avg100 |-> avg100,
         std_dev100 |-> IF days > 0
                        THEN (FloorSqrt((4 * SquaredDiffs(values10, avg100)) \div days) + 1)
                                \div 2
                        ELSE 0]

\* The loop of predict_demand from day on: the weekend is told from the
\* offset of the day, day % 7.
\* PredictLoop as it would be if the noise of a day were drawn at a place in
\* the generator's sequence that depends on the horizon.
RECURSIVE PredictLoopFromHorizon(_, _, _, _, _, _)
PredictLoopFromHorizon(params, g, day, days, predictions, cumulative_demand) ==
    IF day >= days
    THEN [predictions |-> predictions, cumulative_demand |-> cumulative_demand]
    ELSE LET day_demand == DayDemand(params, day, day % 7 >= 5,
                                     RandomNormal(RandomSkip(g, days)))
         IN  PredictLoopFromHorizon(params, RandomSkip(g, 1), day + 1, days,
                         Append(predictions, [day |-> day + 1,
                                              demand10 |-> RoundedDemand(day_demand)]),
                         cumulative_demand + day_demand)

RECURSIVE PredictLoop(_, _, _, _, _, _)
PredictLoop(params, g, day, days, predictions, cumulative_demand) ==
    IF day >= days
    THEN [predictions |-> predictions, cumulative_demand |-> cumulative_demand]
    ELSE LET day_demand == DayDemand(params, day, day % 7 >= 5, RandomNormal(g))
         IN  PredictLoop(params, RandomSkip(g, 1), day + 1, days,
                         Append(predictions, [day |-> day + 1,
                                              demand10 |-> RoundedDemand(day_demand)]),
                         cumulative_demand + day_demand)

\* The body of predict_demand, with the generator in state g.  The dates of
\* the predictions and the coefficient of variation are left out.
PredictDemandBody(g, product_id, store_id, days) ==
    IF ~ValidIds(product_id, store_id) THEN Raise("TypeError")
    ELSE LET g0 == PredictDemandSeed(g, product_id, store_id)
             params == DrawParameters(g0, -10, 20, 10, 40, 5, 20)
             loop == PredictLoop(params, RandomSkip(g0, 4), 0, days, <<>>, 0)
             stats == Statistics([i \in 1..Len(loop.predictions) |->
                                     loop.predictions[i].demand10],
                                 loop.cumulative_demand, days)
         IN  IF days = 0 THEN Raise("ZeroDivisionError")
             ELSE [op |-> "predict_demand",
                   args |-> [product_id |-> product_id, store_id |-> store_id,
                             days |-> days],
                   exc |-> "none", caught |-> "none", error |-> "none",
                   total_demand |-> stats.total,
                   avg_daily_demand100 |-> stats.avg100,
                   std_dev100 |-> stats.std_dev100,
                   daily_predictions |-> loop.predictions]

predict_demand(g, product_id, store_id, days) ==
    TryExcept("predict_demand",
              [product_id |-> product_id, store_id |-> store_id, days |-> days],
              PredictDemandBody(g, product_id, store_id, days),
              "Failed to predict demand")

\* The generator after get_historical_sales(product_id, store_id, days).
HistoricalSalesRng(g, product_id, store_id, days) ==
    IF ~ValidIds(product_id, store_id) THEN g
    ELSE RandomSkip(RandomSeed(product_id * 2000 + store_id),
                    4 + (IF days > 0 THEN days ELSE 0))

\* The loop of get_historical_sales from day days ago on, down to
\* yesterday; today is the weekday of datetime.now() (0: Monday), and the
\* weekend is told from the weekday of the date.
RECURSIVE HistoryLoop(_, _, _, _, _, _, _)
HistoryLoop(params, g, day, days, today, historical_data, total_sales) ==
    IF day < 1
    THEN [historical_data |-> historical_data, total_sales |-> total_sales]
    ELSE LET day_of_week == (today - day) % 7
             day_sales == DayDemand(params, days - day, day_of_week >= 5, RandomNormal(g))
         IN  HistoryLoop(params, RandomSkip(g, 1), day - 1, days, today,
                         Append(historical_data, [days_ago |-> day,
                                                  sales10 |-> RoundedDemand(day_sales),
                                                  day_of_week |-> day_of_week]),
                         total_sales + day_sales)

HistoricalSalesBody(g, product_id, store_id, days, today) ==
    IF ~ValidIds(product_id, store_id) THEN Raise("TypeError")
    ELSE LET g0 == RandomSeed(product_id * 2000 + store_id)
             params == DrawParameters(g0, -5, 10, 10, 30, 10, 25)
             loop == HistoryLoop(params, RandomSkip(g0, 4), days, days, today, <<>>, 0)
             stats == Statistics([i \in 1..Len(loop.historical_data) |->
                                     loop.historical_data[i].sales10],
                                 loop.total_sales, days)
         IN  IF days = 0 THEN Raise("ZeroDivisionError")
             ELSE [op |-> "get_historical_sales",
                   args |-> [product_id |-> product_id, store_id |-> store_id,
                             days |-> days, today |-> today],
                   exc |-> "none", caught |-> "none", error |-> "none",
                   total_sales |-> stats.total,
                   avg_daily_sales100 |-> stats.avg100,
                   std_dev100 |-> stats.std_dev100,
                   daily_sales |-> loop.historical_data]

get_historical_sales(g, product_id, store_id, days, today) ==
    TryExcept("get_historical_sales",
              [product_id |-> product_id, store_id |-> store_id, days |-> days,
               today |-> today],
              HistoricalSalesBody(g, product_id, store_id, days, today),
              "Failed to get historical sales")

DayNames == <<"Monday", "Tuesday", "Wednesday", "Thursday", "Friday", "Saturday", "Sunday">>

MonthNames == <<"January", "February", "March", "April", "May", "June", "July",
                "August", "September", "October", "November", "December">>

\* The entries of daily_sales that fall on the weekday dow.
SalesOn(daily_sales, dow) == SelectSeq(daily_sales, LAMBDA d : d.day_of_week = dow)

\* The weekly pattern from weekday dow on: an entry for every weekday that
\* has sales.
RECURSIVE WeeklyPattern(_, _, _)
WeeklyPattern(daily_sales, overall_avg100, dow) ==
    IF dow > 6 THEN <<>>
    ELSE LET sales == SalesOn(daily_sales, dow)
             sum10 == SumSeq([i \in 1..Len(sales) |-> sales[i].sales10])
             rest == WeeklyPattern(daily_sales, overall_avg100, dow + 1)
         IN  IF Len(sales) > 0
             THEN <<[day_of_week |-> dow,
                     day_name |-> DayNames[dow + 1],
                     avg_sales100 |-> RoundHalfEven(sum10 * 10, Len(sales)),
                     relative_to_avg100 |->
                         IF overall_avg100 > 0
                         THEN RoundHalfEven(sum10 * 1000, Len(sales) * overall_avg100)
                         ELSE 100,
                     sample_size |-> Len(sales)]>> \o rest
             ELSE rest

\* The monthly pattern: random.seed and one uniform draw per month.
MonthlyPattern(product_id, store_id) ==
    [month \in 1..12 |->
        [month |-> month,
         month_name |-> MonthNames[month],
         relative_to_avg100 |->
             RandomUniform(RandomSeed(product_id * 3000 + store_id + month), 70, 130)]]

\* max(factors) and min(factors), of a list that is not empty
MaxOf(factors) == CHOOSE x \in {factors[i] : i \in 1..Len(factors)} :
                      \A i \in 1..Len(factors) : factors[i] <= x

MinOf(factors) == CHOOSE x \in {factors[i] : i \in 1..Len(factors)} :
                      \A i \in 1..Len(factors) : factors[i] >= x

\* factors.index(x) + 1
IndexOf(factors, x) == CHOOSE i \in 1..Len(factors) :
                           factors[i] = x /\ \A j \in 1..(i - 1) : factors[j] # x

\* The generator after analyze_seasonality(product_id, store_id, days).
SeasonalityRng(g, product_id, store_id, days) ==
    IF ~ValidIds(product_id, store_id) \/ days = 0
    THEN HistoricalSalesRng(g, product_id, store_id, days)
    ELSE RandomSkip(RandomSeed(product_id * 3000 + store_id + 12), 1)

\* The body of analyze_seasonality: max of the empty list of weekly factors
\* raises ValueError.
SeasonalityBody(g, product_id, store_id, days, today) ==
    LET op == "analyze_seasonality"
        args == [product_id |-> product_id, store_id |-> store_id, days |-> days,
                 today |-> today]
        historical == get_historical_sales(g, product_id, store_id, days, today)
        weekly_pattern == WeeklyPattern(historical.daily_sales,
                                        historical.avg_daily_sales100, 0)
        monthly_pattern == MonthlyPattern(product_id, store_id)
        weekly_factors == [i \in 1..Len(weekly_pattern) |->
                              weekly_pattern[i].relative_to_avg100]
        monthly_factors == [i \in 1..12 |-> monthly_pattern[i].relative_to_avg100]
    IN  IF historical.error # "none" THEN ErrorResult(op, args, historical.error, "none")
        ELSE IF weekly_factors = <<>> THEN Raise("ValueError")
        ELSE [op |-> op, args |-> args, exc |-> "none", caught |-> "none", error |-> "none",
              weekly_pattern |-> weekly_pattern,
              monthly_pattern |-> monthly_pattern,
              peak_day |->
                  weekly_pattern[IndexOf(weekly_factors, MaxOf(weekly_factors))].day_name,
              trough_day |->
                  weekly_pattern[IndexOf(weekly_factors, MinOf(weekly_factors))].day_name,
              peak_month |->
                  MonthNames[IndexOf(monthly_factors, MaxOf(monthly_factors))],
              trough_month |->
                  MonthNames[IndexOf(monthly_factors, MinOf(monthly_factors))],
              seasonality_strength100 |->
                  RoundHalfEven(MaxOf(monthly_factors) * 100, MinOf(monthly_factors)),
              has_strong_seasonality |->
                  2 * MaxOf(monthly_factors) > 3 * MinOf(monthly_factors)]

analyze_seasonality(g, product_id, store_id, days, today) ==
    TryExcept("analyze_seasonality",
              [product_id |-> product_id, store_id |-> store_id, days |-> days,
               today |-> today],
              SeasonalityBody(g, product_id, store_id, days, today),
              "Failed to analyze seasonality")

(***************************************************************************)
(* Calls of the forecaster, and draws of other code from the same          *)
(* generator (data_loader.load_sample_data draws without seeding).         *)
(***************************************************************************)
MaxDays == 2

MaxPos == 6

WeekLength == 7

\* days of predict_demand: a week, so that a forecast has weekend days
PredictHorizons == (-1)..MaxDays \cup {WeekLength}

\* days of get_historical_sales and analyze_seasonality
HistoryHorizons == (-1)..MaxDays

Weekdays == 0..6

\* The products are those of the other operations and a second one.
PredictDemand(stores) ==
    /\ res = NoCall
    /\ \E product_id \in ProductIds \cup {2}, store_id \in stores, days \in PredictHorizons :
          /\ res' = predict_demand(rng, product_id, store_id, days)
          /\ rng' = PredictDemandRng(rng, product_id, store_id, days)
          /\ UNCHANGED <<prev, calls>>

GetHistoricalSales(stores) ==
    /\ res = NoCall
    /\ \E product_id \in ProductIds, store_id \in stores, days \in HistoryHorizons,
          today \in Weekdays :
          /\ res' = get_historical_sales(rng, product_id, store_id, days, today)
          /\ rng' = HistoricalSalesRng(rng, product_id, store_id, days)
          /\ UNCHANGED <<prev, calls>>

AnalyzeSeasonality(stores) ==
    /\ res = NoCall
    /\ \E product_id \in ProductIds, store_id \in stores, days \in HistoryHorizons,
          today \in Weekdays :
          /\ res' = analyze_seasonality(rng, product_id, store_id, days, today)
          /\ rng' = SeasonalityRng(rng, product_id, store_id, days)
          /\ UNCHANGED <<prev, calls>>

\* A draw of other code: random.randint, random.uniform.
RandomDraw ==
    /\ res = NoCall
    /\ rng.pos < MaxPos
    /\ rng' = RandomSkip(rng, 1)
    /\ UNCHANGED <<res, prev, calls>>

(***************************************************************************)
(* The forecaster as the inventory and pricing operations see it.          *)
(*                                                                         *)
(* predict_demand returns either an error record or a summary of the       *)
(* forecast.  It fails when an id is not a number (TypeError in the seed)  *)
(* and when days = 0 (ZeroDivisionError in total_demand / days); for       *)
(* days < 0 the loop does not run and every statistic is 0.  Otherwise the *)
(* summary is computed from the loop's cumulative demand and the standard  *)
(* deviation of the daily values, which depend on the generator's draws:   *)
(* the callers are modelled for every value of these two in a bounded set  *)
(* (cum100: cumulative demand, sd100: standard deviation, in hundredths).  *)
(***************************************************************************)
MaxCum == 8
MaxStd == 4

CumValues == {c * 50 : c \in 0..MaxCum}

StdValues == {s * 50 : s \in 0..MaxStd}

ForecastError == [error |-> TRUE, total_demand |-> 0, avg_daily_demand100 |-> 0, std_dev100 |-> 0]

ForecastSummary(cum100, sd100, days) ==
    [error |-> FALSE,
     total_demand |-> RoundHalfEven(cum100, 100),
     avg_daily_demand100 |-> RoundHalfEven(cum100, days),
     std_dev100 |-> sd100]

PredictDemandOutcomes(product_id, store_id, days) ==
    IF ~ValidIds(product_id, store_id) \/ days = 0 THEN {ForecastError}
    ELSE IF days < 0 THEN {ForecastSummary(0, 0, -days)}
    ELSE {ForecastSummary(c, s, days) : c \in CumValues, s \in StdValues}

(***************************************************************************)
(* optimize_inventory_allocation                                           *)
(***************************************************************************)
AllocationDays == 30

\* round(allocation / demand * 100 if demand > 0 else 100)
Coverage(allocation, demand) ==
    IF demand > 0 THEN RoundHalfEven(allocation * 100, demand) ELSE 100

\* One entry of the allocation list.
AllocationEntry(store_id, allocation, demand) ==
    [store_id |-> store_id, allocation |-> allocation, demand |-> demand,
     coverage |-> Coverage(allocation, demand)]

\* StoreDemand as it would be if a store without demand were skipped too.
RECURSIVE StoreDemandSkipsZero(_, _)
StoreDemandSkipsZero(store_ids, forecasts) ==
    IF store_ids = <<>> THEN <<>>
    ELSE LET rest == StoreDemandSkipsZero(Tail(store_ids), Tail(forecasts))
         IN  IF Head(forecasts).error \/ Head(forecasts).total_demand = 0 THEN rest
             ELSE <<[store_id |-> Head(store_ids), demand |-> Head(forecasts).total_demand]>> \o rest

\* The loop over store_ids: a store whose forecast failed is skipped.
RECURSIVE StoreDemand(_, _)
StoreDemand(store_ids, forecasts) ==
    IF store_ids = <<>> THEN <<>>
    ELSE LET rest == StoreDemand(Tail(store_ids), Tail(forecasts))
         IN  IF Head(forecasts).error THEN rest
             ELSE <<[store_id |-> Head(store_ids), demand |-> Head(forecasts).total_demand]>> \o rest

RECURSIVE TotalDemand(_)
TotalDemand(store_demand) ==
    IF store_demand = <<>> THEN 0
    ELSE Head(store_demand).demand + TotalDemand(Tail(store_demand))

RECURSIVE TotalAllocated(_)
TotalAllocated(allocation) ==
    IF allocation = <<>> THEN 0
    ELSE Head(allocation).allocation + TotalAllocated(Tail(allocation))

\* DistributeRemaining as it would be if every unit went to the first entry.
RECURSIVE DistributeRemainingToFirst(_, _, _)
DistributeRemainingToFirst(allocation, i, remaining_stock) ==
    IF i >= remaining_stock THEN allocation
    ELSE LET j == 1
             a == allocation[j].allocation + 1
         IN  DistributeRemainingToFirst(
                 [allocation EXCEPT ![j] = AllocationEntry(@.store_id, a, @.demand)],
                 i + 1, remaining_stock)

\* for i in range(remaining_stock): allocation[i % len(allocation)] gets one
\* more unit and its coverage is computed again.
RECURSIVE DistributeRemaining(_, _, _)
DistributeRemaining(allocation, i, remaining_stock) ==
    IF i >= remaining_stock THEN allocation
    ELSE LET j == (i % Len(allocation)) + 1
             a == allocation[j].allocation + 1
         IN  DistributeRemaining(
                 [allocation EXCEPT ![j] = AllocationEntry(@.store_id, a, @.demand)],
                 i + 1, remaining_stock)

\* list.sort(key=...) is stable: an entry goes behind the entries whose key
\* is not greater.
RECURSIVE InsertByCoverage(_, _)
InsertByCoverage(sorted, x) ==
    IF sorted = <<>> THEN <<x>>
    ELSE IF Head(sorted).coverage <= x.coverage
         THEN <<Head(sorted)>> \o InsertByCoverage(Tail(sorted), x)
         ELSE <<x>> \o sorted

RECURSIVE SortByCoverage(_)
SortByCoverage(allocation) ==
    IF allocation = <<>> THEN <<>>
    ELSE InsertByCoverage(SortByCoverage(SubSeq(allocation, 1, Len(allocation) - 1)),
                          allocation[Len(allocation)])

RECURSIVE InsertByStoreId(_, _)
InsertByStoreId(sorted, x) ==
    IF sorted = <<>> THEN <<x>>
    ELSE IF Head(sorted).store_id <= x.store_id
         THEN <<Head(sorted)>> \o InsertByStoreId(Tail(sorted), x)
         ELSE <<x>> \o sorted

RECURSIVE SortByStoreId(_)
SortByStoreId(allocation) ==
    IF allocation = <<>> THEN <<>>
    ELSE InsertByStoreId(SortByStoreId(SubSeq(allocation, 1, Len(allocation) - 1)),
                         allocation[Len(allocation)])

\* total_demand <= total_stock: every store gets ceil(demand), the rest of
\* the stock goes round the stores in input order.
AllocateDemandBased(store_demand, total_stock) ==
    LET allocation == [i \in 1..Len(store_demand) |->
                          AllocationEntry(store_demand[i].store_id,
                                          store_demand[i].demand,
                                          store_demand[i].demand)]
        remaining_stock == total_stock - TotalAllocated(allocation)
    IN  IF remaining_stock > 0 /\ Len(store_demand) > 0
        THEN DistributeRemaining(allocation, 0, remaining_stock)
        ELSE allocation

\* math.floor(total_stock * (demand / total_demand)).  The product is
\* computed in binary floating point: where total_stock * demand is a
\* multiple of total_demand the float product can fall just below the exact
\* integer and the floor is one less.  FloatFloorLow lists the inputs with
\* total_demand < 80 where it does.
FloatFloorLow ==
    {<<22, 30, 44>>, <<23, 26, 46>>, <<26, 30, 52>>, <<55, 18, 66>>, <<55, 36, 66>>,
     <<22, 45, 66>>, <<44, 45, 66>>, <<23, 39, 69>>, <<46, 39, 69>>, <<55, 21, 77>>,
     <<55, 42, 77>>, <<26, 45, 78>>, <<52, 45, 78>>, <<39, 62, 78>>}

\* FloorShare as it would be with math.ceil, as in the other branch.
FloorShareCeil(total_stock, demand, total_demand) ==
    CeilDiv(total_stock * demand, total_demand)

FloorShare(total_stock, demand, total_demand) ==
    IF <<total_stock, demand, total_demand>> \in FloatFloorLow
    THEN (total_stock * demand) \div total_demand - 1
    ELSE (total_stock * demand) \div total_demand

\* total_demand > total_stock: every store gets the floor of its
\* proportional share, the rest goes to the stores in order of coverage.
AllocateProportional(store_demand, total_stock) ==
    LET total_demand == TotalDemand(store_demand)
        allocation == [i \in 1..Len(store_demand) |->
                          AllocationEntry(store_demand[i].store_id,
                                          FloorShare(total_stock, store_demand[i].demand,
                                                     total_demand),
                                          store_demand[i].demand)]
        remaining_stock == total_stock - TotalAllocated(allocation)
    IN  DistributeRemaining(SortByCoverage(allocation), 0, remaining_stock)

\* The body of optimize_inventory_allocation; forecasts[i] is what
\* predict_demand(product_id, store_ids[i], days=30) returned.
AllocationBody(product_id, store_ids, total_stock, forecasts) ==
    LET op == "optimize_inventory_allocation"
        args == [product_id |-> product_id, store_ids |-> store_ids,
                 total_stock |-> total_stock, forecasts |-> forecasts]
        store_demand == StoreDemand(store_ids, forecasts)
        total_demand == TotalDemand(store_demand)
        allocation == IF total_demand <= total_stock
                      THEN AllocateDemandBased(store_demand, total_stock)
                      ELSE AllocateProportional(store_demand, total_stock)
    IN  IF store_demand = <<>>
        THEN ErrorResult(op, args, "Could not retrieve demand data for any store", "none")
        ELSE [op |-> op, args |-> args, exc |-> "none", caught |-> "none", error |-> "none",
              total_stock |-> total_stock,
              total_demand |-> total_demand,
              coverage_pct |-> Coverage(total_stock, total_demand),
              allocation |-> SortByStoreId(allocation),
              allocation_strategy |-> IF total_demand > total_stock
                                      THEN "demand_proportional" ELSE "demand_based"]

optimize_inventory_allocation(product_id, store_ids, total_stock, forecasts) ==
    TryExcept("optimize_inventory_allocation",
              [product_id |-> product_id, store_ids |-> store_ids,
               total_stock |-> total_stock, forecasts |-> forecasts],
              AllocationBody(product_id, store_ids, total_stock, forecasts),
              "Failed to optimize inventory allocation")

\* The lists of distinct store ids a caller passes.
\* store_ids: the lists of distinct ids of stores that are not empty
StoreIdLists(stores) ==
    {s \in UNION {[1..n -> stores] : n \in 1..Cardinality(stores)} :
        \A i, j \in DOMAIN s : i # j => s[i] # s[j]}

\* What the allocation reads of a forecast: whether it failed, and its
\* total_demand, which is one of the small demands or one of four larger
\* ones.
DemandOutcomes(product_id, store_id) ==
    {[error |-> f.error, total_demand |-> f.total_demand] :
        f \in PredictDemandOutcomes(product_id, store_id, AllocationDays)}
    \cup (IF ValidIds(product_id, store_id)
          THEN {[error |-> FALSE, total_demand |-> d] : d \in {8, 13, 30, 200}}
          ELSE {})

\* What the predict_demand calls of the loop can return, one per store id.
RECURSIVE ForecastLists(_, _)
ForecastLists(product_id, store_ids) ==
    IF store_ids = <<>> THEN {<<>>}
    ELSE {<<f>> \o rest : f \in DemandOutcomes(product_id, Head(store_ids)),
                          rest \in ForecastLists(product_id, Tail(store_ids))}

\* The generator after the loop's predict_demand calls.
RECURSIVE AllocationRng(_, _, _)
AllocationRng(g, product_id, store_ids) ==
    IF store_ids = <<>> THEN g
    ELSE AllocationRng(PredictDemandRng(g, product_id, Head(store_ids), AllocationDays),
                       product_id, Tail(store_ids))

\* Where the caller has several stores, it also passes one list of three.
\* total_stock: the small stocks, two larger ones, and the stock one unit
\* short of the demand that will be forecast.
OptimizeInventoryAllocation(stores) ==
    /\ res = NoCall
    /\ \E product_id \in ProductIds,
          store_ids \in StoreIdLists(stores)
                          \cup (IF MaxStores \in stores THEN {<<1, 2, MaxStores + 1>>} ELSE {}) :
         \E forecasts \in ForecastLists(product_id, store_ids) :
         \E total_stock \in (0..MaxStock \cup {14, 50}
                                \cup {TotalDemand(StoreDemand(store_ids, forecasts)) - 1})
                               \ {-1} :
           /\ res' = optimize_inventory_allocation(product_id, store_ids, total_stock, forecasts)
           /\ rng' = AllocationRng(rng, product_id, store_ids)
           /\ UNCHANGED <<prev, calls>>

(***************************************************************************)
(* calculate_reorder_point                                                 *)
(***************************************************************************)
MaxLead == 3

\* lead_time_days: from -1, for which math.sqrt raises, and 0, for which the
\* forecast fails.
LeadTimes == (-1)..MaxLead

\* service_level, in thousandths: a level in and on the edge of every band
\* of the table, and levels outside (0,1).
ServiceLevels == {0, 500, 699, 700, 800, 899, 900, 950, 974, 975, 990, 999, 1000}

\* SafetyFactor as it would be with the values of two bands exchanged.
SafetyFactorSwapped(service_level1000) ==
    IF service_level1000 >= 999 THEN 309
    ELSE IF service_level1000 >= 990 THEN 233
    ELSE IF service_level1000 >= 975 THEN 165
    ELSE IF service_level1000 >= 950 THEN 196
    ELSE IF service_level1000 >= 900 THEN 128
    ELSE IF service_level1000 >= 800 THEN 84
    ELSE IF service_level1000 >= 700 THEN 52
    ELSE 0

\* The safety factor (z-score) of a service level, in hundredths.
SafetyFactor(service_level1000) ==
    IF service_level1000 >= 999 THEN 309
    ELSE IF service_level1000 >= 990 THEN 233
    ELSE IF service_level1000 >= 975 THEN 196
    ELSE IF service_level1000 >= 950 THEN 165
    ELSE IF service_level1000 >= 900 THEN 128
    ELSE IF service_level1000 >= 800 THEN 84
    ELSE IF service_level1000 >= 700 THEN 52
    ELSE 0

\* ReorderPointRounded as it would be with round.
ReorderPointNearest(lead_time_demand100, safety_factor100, std_dev100, lead_time_days) ==
    (lead_time_demand100 * 100
        + FloorMulSqrt(safety_factor100 * std_dev100, lead_time_days) + 5000) \div 10000

\* ReorderPointRounded as it would be with math.floor.
ReorderPointFloor(lead_time_demand100, safety_factor100, std_dev100, lead_time_days) ==
    (lead_time_demand100 * 100
        + FloorMulSqrt(safety_factor100 * std_dev100, lead_time_days)) \div 10000

\* math.ceil(lead_time_demand + safety_factor * std_dev * sqrt(lead_time_days))
ReorderPointRounded(lead_time_demand100, safety_factor100, std_dev100, lead_time_days) ==
    CeilDiv(lead_time_demand100 * 100
                + CeilMulSqrt(safety_factor100 * std_dev100, lead_time_days),
            10000)

\* The body of calculate_reorder_point; forecast is what
\* predict_demand(product_id, store_id, days=lead_time_days) returned.
ReorderPointBody(product_id, store_id, lead_time_days, service_level1000, forecast) ==
    LET op == "calculate_reorder_point"
        args == [product_id |-> product_id, store_id |-> store_id,
                 lead_time_days |-> lead_time_days,
                 service_level1000 |-> service_level1000, forecast |-> forecast]
        avg_daily_demand100 == forecast.avg_daily_demand100
        std_dev100 == forecast.std_dev100
        lead_time_demand100 == avg_daily_demand100 * lead_time_days
        safety_factor100 == SafetyFactor(service_level1000)
    IN  IF forecast.error THEN ErrorResult(op, args, "predict_demand error", "none")
        ELSE IF lead_time_days < 0 THEN Raise("ValueError")
        ELSE [op |-> op, args |-> args, exc |-> "none", caught |-> "none", error |-> "none",
              avg_daily_demand100 |-> avg_daily_demand100,
              lead_time_days |-> lead_time_days,
              lead_time_demand100 |-> lead_time_demand100,
              demand_std_dev100 |-> std_dev100,
              lead_time_std_dev100 |-> RoundMulSqrt(std_dev100, lead_time_days, 1),
              service_level1000 |-> service_level1000,
              safety_factor100 |-> safety_factor100,
              safety_stock100 |-> RoundMulSqrt(safety_factor100 * std_dev100,
                                               lead_time_days, 100),
              reorder_point |-> ReorderPointRounded(lead_time_demand100, safety_factor100,
                                                    std_dev100, lead_time_days),
              stockout_probability100 |-> (1000 - service_level1000) * 10]

calculate_reorder_point(product_id, store_id, lead_time_days, service_level1000, forecast) ==
    TryExcept("calculate_reorder_point",
              [product_id |-> product_id, store_id |-> store_id,
               lead_time_days |-> lead_time_days,
               service_level1000 |-> service_level1000, forecast |-> forecast],
              ReorderPointBody(product_id, store_id, lead_time_days, service_level1000,
                               forecast),
              "Failed to calculate reorder point")

\* The forecasts are those of small demand and, for a lead time of 4 days,
\* one with 10 units a day and a standard deviation of 2.
CalculateReorderPoint(stores) ==
    /\ res = NoCall
    /\ \E product_id \in ProductIds, store_id \in stores,
          lead_time_days \in LeadTimes \cup {4} :
         \E forecast \in PredictDemandOutcomes(product_id, store_id, lead_time_days)
                            \cup (IF ValidIds(product_id, store_id) /\ lead_time_days = 4
                                  THEN {ForecastSummary(4000, 200, 4)} ELSE {}),
            service_level1000 \in ServiceLevels :
           /\ res' = calculate_reorder_point(product_id, store_id, lead_time_days,
                                             service_level1000, forecast)
           /\ rng' = PredictDemandRng(rng, product_id, store_id, lead_time_days)
           /\ UNCHANGED <<prev, calls>>

(***************************************************************************)
(* calculate_economic_order_quantity                                       *)
(***************************************************************************)
\* The default of the days parameter, and the longest forecast asked for.
AnnualDays == 365

MaxForecastDays == 90

UnitCost == 100

\* days, of calculate_economic_order_quantity, calculate_stockout_risk and
\* analyze_inventory_turnover.
Horizons == (-1)..MaxDays \cup {AnnualDays}

\* holding_cost_pct, in hundredths.
HoldingCostPcts == {-25, 0, 20, 25}

OrderCosts == {-25, 0, 25, 50}

\* HoldingCostPositive as it would be if only a zero holding cost were
\* rejected.
HoldingCostNonZero(holding_cost) == holding_cost # 0

\* if holding_cost > 0
HoldingCostPositive(holding_cost) == holding_cost > 0

\* EoqRounded as it would be with math.floor.
EoqRoundedFloor(num, den) == FloorSqrt(num \div den)

\* math.ceil(math.sqrt(num / den)), for num >= 0 and den > 0
EoqRounded(num, den) == CeilSqrt(CeilDiv(num, den))

\* The statements after eoq_rounded, for annual demand D (in hundredths),
\* order cost S, holding cost H and the order quantity: the two divisions
\* raise ZeroDivisionError on a zero divisor.
EoqCosts(op, args, annual_demand100, order_cost, holding_cost, days, eoq_rounded) ==
    IF eoq_rounded = 0 \/ annual_demand100 = 0 THEN Raise("ZeroDivisionError")
    ELSE [op |-> op, args |-> args, exc |-> "none", caught |-> "none", error |-> "none",
          annual_demand |-> RoundHalfEven(annual_demand100, 100),
          unit_cost |-> UnitCost,
          holding_cost_per_unit |-> holding_cost,
          order_cost |-> order_cost,
          eoq |-> eoq_rounded,
          orders_per_year10 |-> RoundHalfEven(annual_demand100, 10 * eoq_rounded),
          days_between_orders10 |->
              IF annual_demand100 > 0
              THEN RoundHalfEven(days * eoq_rounded * 1000, annual_demand100)
              ELSE -RoundHalfEven(days * eoq_rounded * 1000, -annual_demand100),
          average_inventory |-> RoundHalfEven(eoq_rounded, 2),
          annual_ordering_cost100 |->
              RoundHalfEven(order_cost * annual_demand100, eoq_rounded),
          annual_holding_cost100 |-> holding_cost * eoq_rounded * 50,
          total_annual_cost100 |->
              RoundHalfEven(order_cost * annual_demand100
                                + holding_cost * eoq_rounded * eoq_rounded * 50,
                            eoq_rounded)]

\* The body of calculate_economic_order_quantity; forecast is what
\* predict_demand(product_id, store_id, days=min(days, 90)) returned.  The
\* square root is of 2 * D * S / H = num / den with
\* num = 2 * annual_demand100 * order_cost and den = 100 * holding_cost.
EoqBody(product_id, store_id, holding_cost_pct100, order_cost, days, forecast) ==
    LET op == "calculate_economic_order_quantity"
        args == [product_id |-> product_id, store_id |-> store_id,
                 holding_cost_pct100 |-> holding_cost_pct100, order_cost |-> order_cost,
                 days |-> days, forecast |-> forecast]
        annual_demand100 == forecast.avg_daily_demand100 * days
        holding_cost == (UnitCost * holding_cost_pct100) \div 100
        num == 2 * annual_demand100 * order_cost
        den == 100 * holding_cost
    IN  IF forecast.error THEN ErrorResult(op, args, "predict_demand error", "none")
        ELSE IF ~HoldingCostPositive(holding_cost)
             THEN ErrorResult(op, args, "Holding cost must be greater than zero", "none")
        ELSE IF holding_cost = 0 THEN Raise("ZeroDivisionError")
        ELSE IF (num < 0 /\ den > 0) \/ (num > 0 /\ den < 0) THEN Raise("ValueError")
        ELSE EoqCosts(op, args, annual_demand100, order_cost, holding_cost, days,
                      IF den > 0 THEN EoqRounded(num, den) ELSE EoqRounded(-num, -den))

calculate_economic_order_quantity(product_id, store_id, holding_cost_pct100, order_cost, days, forecast) ==
    TryExcept("calculate_economic_order_quantity",
              [product_id |-> product_id, store_id |-> store_id,
               holding_cost_pct100 |-> holding_cost_pct100, order_cost |-> order_cost,
               days |-> days, forecast |-> forecast],
              EoqBody(product_id, store_id, holding_cost_pct100, order_cost, days, forecast),
              "Failed to calculate EOQ")

\* What the order quantity reads of a forecast: whether it failed, and its
\* avg_daily_demand.
AverageOutcomes(product_id, store_id, days) ==
    {[error |-> f.error, avg_daily_demand100 |-> f.avg_daily_demand100] :
        f \in PredictDemandOutcomes(product_id, store_id, days)}

CalculateEconomicOrderQuantity(stores) ==
    /\ res = NoCall
    /\ \E product_id \in ProductIds, store_id \in stores, days \in Horizons :
         \E forecast \in AverageOutcomes(product_id, store_id, Min(days, MaxForecastDays)),
            holding_cost_pct100 \in HoldingCostPcts, order_cost \in OrderCosts :
           /\ res' = calculate_economic_order_quantity(product_id, store_id,
                         holding_cost_pct100, order_cost, days, forecast)
           /\ rng' = PredictDemandRng(rng, product_id, store_id, Min(days, MaxForecastDays))
           /\ UNCHANGED <<prev, calls>>

(***************************************************************************)
(* calculate_stockout_risk                                                 *)
(***************************************************************************)
\* current_stock
Stocks == 0..MaxStock

\* None, in a field that otherwise holds a number that is not negative.
NoneValue == -1

\* z_score < k for z_score = (current_stock - total_demand)
\*                              / (std_dev * math.sqrt(days)), std_dev > 0
ZScoreBelow(k, current_stock, total_demand, std_dev100, days) ==
    LET y == (current_stock - total_demand) * 100
    IN  IF k = 0 THEN y < 0
        ELSE IF k > 0 THEN y < 0 \/ BelowMulSqrt(y, k * std_dev100, days)
        ELSE y < 0 /\ BigLess(BigTimes(BigSquare(-k * std_dev100), days), BigSquare(-y))

\* ApproximateProbability as it would be with the values of two steps
\* exchanged.
ApproximateProbabilitySwapped(current_stock, total_demand, std_dev100, days) ==
    IF ZScoreBelow(-3, current_stock, total_demand, std_dev100, days) THEN 999
    ELSE IF ZScoreBelow(-2, current_stock, total_demand, std_dev100, days) THEN 975
    ELSE IF ZScoreBelow(-1, current_stock, total_demand, std_dev100, days) THEN 500
    ELSE IF ZScoreBelow(0, current_stock, total_demand, std_dev100, days) THEN 840
    ELSE IF ZScoreBelow(1, current_stock, total_demand, std_dev100, days) THEN 160
    ELSE IF ZScoreBelow(2, current_stock, total_demand, std_dev100, days) THEN 25
    ELSE 1

\* The approximation of the normal CDF, in thousandths.
ApproximateProbability(current_stock, total_demand, std_dev100, days) ==
    IF ZScoreBelow(-3, current_stock, total_demand, std_dev100, days) THEN 999
    ELSE IF ZScoreBelow(-2, current_stock, total_demand, std_dev100, days) THEN 975
    ELSE IF ZScoreBelow(-1, current_stock, total_demand, std_dev100, days) THEN 840
    ELSE IF ZScoreBelow(0, current_stock, total_demand, std_dev100, days) THEN 500
    ELSE IF ZScoreBelow(1, current_stock, total_demand, std_dev100, days) THEN 160
    ELSE IF ZScoreBelow(2, current_stock, total_demand, std_dev100, days) THEN 25
    ELSE 1

\* DeterministicProbability as it would be with current_stock <= total_demand.
DeterministicProbabilityInclusive(current_stock, total_demand) ==
    IF current_stock <= total_demand THEN 1000 ELSE 0

\* stockout_probability when std_dev is 0, in thousandths
DeterministicProbability(current_stock, total_demand) ==
    IF current_stock < total_demand THEN 1000 ELSE 0

\* stockout_probability, in thousandths
StockoutProbability(current_stock, total_demand, std_dev100, days) ==
    IF std_dev100 > 0
    THEN ApproximateProbability(current_stock, total_demand, std_dev100, days)
    ELSE DeterministicProbability(current_stock, total_demand)

\* RiskLevel as it would be with the cut point of medium at 0.5.
RiskLevelMediumAboveHalf(stockout_probability1000) ==
    IF stockout_probability1000 > 700 THEN "high"
    ELSE IF stockout_probability1000 > 500 THEN "medium"
    ELSE "low"

RiskLevel(stockout_probability1000) ==
    IF stockout_probability1000 > 700 THEN "high"
    ELSE IF stockout_probability1000 > 300 THEN "medium"
    ELSE "low"

\* The body of calculate_stockout_risk; forecast is what
\* predict_demand(product_id, store_id, days=days) returned.  The result
\* keeps stockout_probability as computed (stockout_probability1000) beside
\* the percentage returned (stockout_probability10, in tenths of a percent).
\* The stockout date is a formatted date and is left out.
StockoutRiskBody(product_id, store_id, current_stock, days, forecast) ==
    LET op == "calculate_stockout_risk"
        args == [product_id |-> product_id, store_id |-> store_id,
                 current_stock |-> current_stock, days |-> days, forecast |-> forecast]
        stockout_probability1000 ==
            StockoutProbability(current_stock, forecast.total_demand,
                                forecast.std_dev100, days)
    IN  IF forecast.error THEN ErrorResult(op, args, "predict_demand error", "none")
        ELSE [op |-> op, args |-> args, exc |-> "none", caught |-> "none", error |-> "none",
              current_stock |-> current_stock,
              forecasted_demand |-> forecast.total_demand,
              avg_daily_demand100 |-> forecast.avg_daily_demand100,
              days_until_stockout10 |->
                  IF forecast.avg_daily_demand100 > 0
                  THEN RoundHalfEven(current_stock * 1000, forecast.avg_daily_demand100)
                  ELSE NoneValue,
              stockout_probability1000 |-> stockout_probability1000,
              stockout_probability10 |-> stockout_probability1000,
              risk_level |-> RiskLevel(stockout_probability1000),
              expected_remaining_stock |-> Max(0, current_stock - forecast.total_demand),
              days |-> days]

calculate_stockout_risk(product_id, store_id, current_stock, days, forecast) ==
    TryExcept("calculate_stockout_risk",
              [product_id |-> product_id, store_id |-> store_id,
               current_stock |-> current_stock, days |-> days, forecast |-> forecast],
              StockoutRiskBody(product_id, store_id, current_stock, days, forecast),
              "Failed to calculate stockout risk")

CalculateStockoutRisk(stores) ==
    /\ res = NoCall
    /\ \E product_id \in ProductIds, store_id \in stores, days \in Horizons :
         \E forecast \in PredictDemandOutcomes(product_id, store_id, days),
            current_stock \in Stocks :
           /\ res' = calculate_stockout_risk(product_id, store_id, current_stock, days,
                                             forecast)
           /\ rng' = PredictDemandRng(rng, product_id, store_id, days)
           /\ UNCHANGED <<prev, calls>>

(***************************************************************************)
(* analyze_inventory_turnover                                              *)
(***************************************************************************)
DaysPerYear == 365

\* turnover_ratio > k for turnover_ratio = annual_demand / current_stock,
\* current_stock > 0
TurnoverAbove(k, annual_demand100, current_stock) ==
    annual_demand100 > k * 100 * current_stock

\* TurnoverRating as it would be without the band of a ratio above 6.
TurnoverRatingThreeBands(annual_demand100, current_stock) ==
    IF current_stock <= 0 THEN "excellent"
    ELSE IF TurnoverAbove(12, annual_demand100, current_stock) THEN "excellent"
    ELSE IF TurnoverAbove(3, annual_demand100, current_stock) THEN "average"
    ELSE IF TurnoverAbove(0, annual_demand100, current_stock) THEN "poor"
    ELSE "unknown"

\* TurnoverRating as it would be if no stock gave no rating.
TurnoverRatingUnknownWithoutStock(annual_demand100, current_stock) ==
    IF current_stock <= 0 THEN "unknown"
    ELSE IF TurnoverAbove(12, annual_demand100, current_stock) THEN "excellent"
    ELSE IF TurnoverAbove(6, annual_demand100, current_stock) THEN "good"
    ELSE IF TurnoverAbove(3, annual_demand100, current_stock) THEN "average"
    ELSE IF TurnoverAbove(0, annual_demand100, current_stock) THEN "poor"
    ELSE "unknown"

\* turnover_rating; the ratio of a stock that is not positive is infinite
TurnoverRating(annual_demand100, current_stock) ==
    IF current_stock <= 0 THEN "excellent"
    ELSE IF TurnoverAbove(12, annual_demand100, current_stock) THEN "excellent"
    ELSE IF TurnoverAbove(6, annual_demand100, current_stock) THEN "good"
    ELSE IF TurnoverAbove(3, annual_demand100, current_stock) THEN "average"
    ELSE IF TurnoverAbove(0, annual_demand100, current_stock) THEN "poor"
    ELSE "unknown"

\* The body of analyze_inventory_turnover; forecast is what
\* predict_demand(product_id, store_id, days=days) returned.
TurnoverBody(product_id, store_id, current_stock, days, forecast) ==
    LET op == "analyze_inventory_turnover"
        args == [product_id |-> product_id, store_id |-> store_id,
                 current_stock |-> current_stock, days |-> days, forecast |-> forecast]
        annual_demand100 == forecast.avg_daily_demand100 * DaysPerYear
    IN  IF forecast.error THEN ErrorResult(op, args, "predict_demand error", "none")
        ELSE [op |-> op, args |-> args, exc |-> "none", caught |-> "none", error |-> "none",
              current_stock |-> current_stock,
              forecasted_demand_period |-> forecast.total_demand,
              avg_daily_demand100 |-> forecast.avg_daily_demand100,
              annual_demand_estimate |-> RoundHalfEven(annual_demand100, 100),
              inventory_turnover_ratio100 |->
                  IF current_stock > 0 THEN RoundHalfEven(annual_demand100, current_stock)
                  ELSE NoneValue,
              days_of_supply10 |->
                  IF current_stock <= 0 THEN 0
                  ELSE IF forecast.avg_daily_demand100 > 0
                  THEN RoundHalfEven(current_stock * 1000, forecast.avg_daily_demand100)
                  ELSE NoneValue,
              turnover_rating |-> TurnoverRating(annual_demand100, current_stock),
              analysis_period_days |-> days]

analyze_inventory_turnover(product_id, store_id, current_stock, days, forecast) ==
    TryExcept("analyze_inventory_turnover",
              [product_id |-> product_id, store_id |-> store_id,
               current_stock |-> current_stock, days |-> days, forecast |-> forecast],
              TurnoverBody(product_id, store_id, current_stock, days, forecast),
              "Failed to analyze inventory turnover")

\* The stocks are those of the other operations, two that last for weeks and
\* a negative one.
AnalyzeInventoryTurnover(stores) ==
    /\ res = NoCall
    /\ \E product_id \in ProductIds, store_id \in stores, days \in Horizons :
         \E forecast \in PredictDemandOutcomes(product_id, store_id, days),
            current_stock \in Stocks \cup {-1, 10 * MaxStock, 20 * MaxStock} :
           /\ res' = analyze_inventory_turnover(product_id, store_id, current_stock, days,
                                                forecast)
           /\ rng' = PredictDemandRng(rng, product_id, store_id, days)
           /\ UNCHANGED <<prev, calls>>

(***************************************************************************)
(* price_optimizer.py                                                      *)
(*                                                                         *)
(* get_pricing_metrics is imported from data_loader, which does not define *)
(* it: it is taken to return the metrics of a product at a store, or       *)
(* nothing, in which case the operations use their defaults.               *)
(*                                                                         *)
(* Both operations then sum p.get('demand', 0) over base_predictions, the  *)
(* dict that predict_demand returned: the iteration yields the keys of the *)
(* dict, which are strings, and str has no attribute get.                  *)
(***************************************************************************)
\* current_price
Prices == {0, 100}

\* discount_pct, in hundredths
Discounts == {0, 10, 100}

NoMetrics == [found |-> FALSE, elasticity100 |-> 0, margin_target100 |-> 0]

DefaultMetrics == [found |-> TRUE, elasticity100 |-> -150, margin_target100 |-> 30]

get_pricing_metrics(product_id, store_id) ==
    {NoMetrics, DefaultMetrics, [DefaultMetrics EXCEPT !.elasticity100 = -200]}

\* The keys of the dict that predict_demand returns.
ForecastKeys(forecast) ==
    IF forecast.error THEN {"error"}
    ELSE {"product_id", "store_id", "days", "total_demand", "avg_daily_demand", "std_dev",
          "coefficient_of_variation", "daily_predictions"}

\* sum(p.get('demand', 0) for p in base_predictions)
BaseDemand(base_predictions) ==
    IF ForecastKeys(base_predictions) # {} THEN Raise("AttributeError") ELSE [exc |-> "none"]

PricingDays == 30

\* The body of calculate_optimal_price, as far as it runs; forecast is what
\* predict_demand(product_id, store_id, 30) returned.
OptimalPriceBody(product_id, store_id, current_price, metrics, forecast) ==
    BaseDemand(forecast)

calculate_optimal_price(product_id, store_id, current_price, metrics, forecast) ==
    TryExcept("calculate_optimal_price",
              [product_id |-> product_id, store_id |-> store_id,
               current_price |-> current_price, metrics |-> metrics, forecast |-> forecast],
              OptimalPriceBody(product_id, store_id, current_price, metrics, forecast),
              "Failed to calculate optimal price")

\* The body of get_pricing_recommendation, as far as it runs: an error of
\* calculate_optimal_price is returned as it is.
RecommendationBody(product_id, store_id, current_price, metrics, forecast) ==
    LET optimal == calculate_optimal_price(product_id, store_id, current_price, metrics,
                                           forecast)
    IN  IF optimal.error # "none"
        THEN ErrorResult("get_pricing_recommendation", optimal.args, optimal.error, "none")
        ELSE optimal

get_pricing_recommendation(product_id, store_id, current_price, metrics, forecast) ==
    TryExcept("get_pricing_recommendation",
              [product_id |-> product_id, store_id |-> store_id,
               current_price |-> current_price, metrics |-> metrics, forecast |-> forecast],
              RecommendationBody(product_id, store_id, current_price, metrics, forecast),
              "Failed to get pricing recommendation")

\* The body of calculate_promotion_impact, as far as it runs.
PromotionBody(product_id, store_id, current_price, discount_pct100, metrics, forecast) ==
    BaseDemand(forecast)

calculate_promotion_impact(product_id, store_id, current_price, discount_pct100, metrics, forecast) ==
    TryExcept("calculate_promotion_impact",
              [product_id |-> product_id, store_id |-> store_id,
               current_price |-> current_price, discount_pct100 |-> discount_pct100,
               metrics |-> metrics, forecast |-> forecast],
              PromotionBody(product_id, store_id, current_price, discount_pct100, metrics,
                            forecast),
              "Failed to calculate promotion impact")

\* What the pricing operations could read of a forecast: whether it failed.
PricingOutcomes(product_id, store_id) ==
    {[error |-> f.error] : f \in PredictDemandOutcomes(product_id, store_id, PricingDays)}

CalculateOptimalPrice(stores) ==
    /\ res = NoCall
    /\ \E product_id \in ProductIds, store_id \in stores, current_price \in Prices :
         \E metrics \in get_pricing_metrics(product_id, store_id),
            forecast \in PricingOutcomes(product_id, store_id) :
           /\ res' = calculate_optimal_price(product_id, store_id, current_price, metrics,
                                             forecast)
           /\ rng' = PredictDemandRng(rng, product_id, store_id, PricingDays)
           /\ UNCHANGED <<prev, calls>>

GetPricingRecommendation(stores) ==
    /\ res = NoCall
    /\ \E product_id \in ProductIds, store_id \in stores, current_price \in Prices :
         \E metrics \in get_pricing_metrics(product_id, store_id),
            forecast \in PricingOutcomes(product_id, store_id) :
           /\ res' = get_pricing_recommendation(product_id, store_id, current_price,
                                                metrics, forecast)
           /\ rng' = PredictDemandRng(rng, product_id, store_id, PricingDays)
           /\ UNCHANGED <<prev, calls>>

CalculatePromotionImpact(stores) ==
    /\ res = NoCall
    /\ \E product_id \in ProductIds, store_id \in stores, current_price \in Prices,
          discount_pct100 \in Discounts :
         \E metrics \in get_pricing_metrics(product_id, store_id),
            forecast \in PricingOutcomes(product_id, store_id) :
           /\ res' = calculate_promotion_impact(product_id, store_id, current_price,
                                                discount_pct100, metrics, forecast)
           /\ rng' = PredictDemandRng(rng, product_id, store_id, PricingDays)
           /\ UNCHANGED <<prev, calls>>

(***************************************************************************)
(* predict_demand called from worker threads.  The threads share the       *)
(* module-level generator; a thread can be preempted between any two of    *)
(* the statements of its call, and a statement that draws from the         *)
(* generator is one step.                                                  *)
(***************************************************************************)
Threads == {1, 2}

\* a thread that is not in a call
IdleThread ==
    [pc |-> "idle", product_id |-> NoneId, store_id |-> NoneId, days |-> 0,
     params |-> [base_demand10 |-> 0, trend1000 |-> 0, seasonality100 |-> 0,
                 noise_level100 |-> 0],
     drawn |-> 0, day |-> 0, predictions |-> <<>>, cumulative_demand |-> 0,
     result |-> NoCall]

\* A thread enters predict_demand(product_id, store_id, days).
ThreadCall(t) ==
    /\ calls[t].pc = "idle"
    /\ \E product_id \in ProductIds, store_id \in StoreIds, days \in (-1)..MaxDays :
          calls' = [calls EXCEPT ![t] = [IdleThread EXCEPT !.pc = "seed",
                                                           !.product_id = product_id,
                                                           !.store_id = store_id,
                                                           !.days = days]]
    /\ UNCHANGED <<res, prev, rng>>

\* random.seed(product_id * 1000 + store_id); an id that is no number raises
\* before the generator is touched, and the call returns the error record.
ThreadSeed(t) ==
    LET c == calls[t]
    IN  /\ c.pc = "seed"
        /\ IF ValidIds(c.product_id, c.store_id)
           THEN /\ rng' = PredictDemandSeed(rng, c.product_id, c.store_id)
                /\ calls' = [calls EXCEPT ![t].pc = "uniform"]
           ELSE /\ calls' = [calls EXCEPT ![t].pc = "done",
                                          ![t].result = predict_demand(rng, c.product_id,
                                                                       c.store_id, c.days)]
                /\ UNCHANGED rng
        /\ UNCHANGED <<res, prev>>

\* The next of the four statements base_demand = random.uniform(5, 50),
\* trend = random.uniform(-0.01, 0.02), seasonality = random.uniform(0.1, 0.4)
\* and noise_level = random.uniform(0.05, 0.2).
ThreadUniform(t) ==
    LET c == calls[t]
    IN  /\ c.pc = "uniform"
        /\ calls' = [calls EXCEPT
                        ![t].drawn = c.drawn + 1,
                        ![t].pc = IF c.drawn = 3 THEN "loop" ELSE "uniform",
                        ![t].params =
                            CASE c.drawn = 0 ->
                                    [c.params EXCEPT !.base_demand10 = RandomUniform(rng, 50, 500)]
                              [] c.drawn = 1 ->
                                    [c.params EXCEPT !.trend1000 = RandomUniform(rng, -10, 20)]
                              [] c.drawn = 2 ->
                                    [c.params EXCEPT !.seasonality100 = RandomUniform(rng, 10, 40)]
                              [] OTHER ->
                                    [c.params EXCEPT !.noise_level100 = RandomUniform(rng, 5, 20)]]
        /\ rng' = RandomSkip(rng, 1)
        /\ UNCHANGED <<res, prev>>

\* One pass of the loop over the days: the noise of the day is drawn from
\* the generator as it is when the thread gets to it.
ThreadDay(t) ==
    LET c == calls[t]
        day_demand == DayDemand(c.params, c.day, c.day % 7 >= 5, RandomNormal(rng))
    IN  /\ c.pc = "loop"
        /\ c.day < c.days
        /\ calls' = [calls EXCEPT ![t].day = c.day + 1,
                                  ![t].predictions =
                                      Append(c.predictions,
                                             [day |-> c.day + 1,
                                              demand10 |-> RoundedDemand(day_demand)]),
                                  ![t].cumulative_demand = c.cumulative_demand + day_demand]
        /\ rng' = RandomSkip(rng, 1)
        /\ UNCHANGED <<res, prev>>

\* The statistics and the return, or the except clause.
ThreadReturn(t) ==
    LET c == calls[t]
        stats == Statistics([i \in 1..Len(c.predictions) |-> c.predictions[i].demand10],
                            c.cumulative_demand, c.days)
        args == [product_id |-> c.product_id, store_id |-> c.store_id, days |-> c.days]
        returned ==
            TryExcept("predict_demand", args,
                      IF c.days = 0 THEN Raise("ZeroDivisionError")
                      ELSE [op |-> "predict_demand", args |-> args,
                            exc |-> "none", caught |-> "none", error |-> "none",
                            total_demand |-> stats.total,
                            avg_daily_demand100 |-> stats.avg100,
                            std_dev100 |-> stats.std_dev100,
                            daily_predictions |-> c.predictions],
                      "Failed to predict demand")
    IN  /\ c.pc = "loop"
        /\ c.day >= c.days
        /\ calls' = [calls EXCEPT ![t].pc = "done", ![t].result = returned]
        /\ UNCHANGED <<res, prev, rng>>

(***************************************************************************)
(* The caller.                                                             *)
(***************************************************************************)
\* The caller drops the result it holds.
Discard ==
    /\ res # NoCall
    /\ res' = NoCall
    /\ UNCHANGED <<prev, rng, calls>>

\* The caller keeps the forecast it holds, to compare a later one with it.
Keep ==
    /\ res.op = "predict_demand"
    /\ res.error = "none"
    /\ prev' = res
    /\ res' = NoCall
    /\ UNCHANGED <<rng, calls>>

(***************************************************************************)
(* Specifications.                                                         *)
(***************************************************************************)
Init ==
    /\ res = NoCall
    /\ prev = NoCall
    /\ rng = RngInit
    /\ calls = [t \in Threads |-> IdleThread]

NextAllocation == OptimizeInventoryAllocation(StoreIds) \/ Discard

SpecAllocation == Init /\ [][NextAllocation]_vars

NextReorderPoint == CalculateReorderPoint(StoreIds) \/ Discard

SpecReorderPoint == Init /\ [][NextReorderPoint]_vars

NextEoq == CalculateEconomicOrderQuantity(StoreIds) \/ Discard

SpecEoq == Init /\ [][NextEoq]_vars

NextStockoutRisk == CalculateStockoutRisk(StoreIds) \/ Discard

SpecStockoutRisk == Init /\ [][NextStockoutRisk]_vars

NextForecast ==
    \/ PredictDemand(StoreIds)
    \/ GetHistoricalSales(StoreIds)
    \/ AnalyzeSeasonality(StoreIds)
    \/ RandomDraw
    \/ Keep
    \/ Discard

SpecForecast == Init /\ [][NextForecast]_vars

NextThreads ==
    \E t \in Threads :
        \/ ThreadCall(t)
        \/ ThreadSeed(t)
        \/ ThreadUniform(t)
        \/ ThreadDay(t)
        \/ ThreadReturn(t)

SpecThreads == Init /\ [][NextThreads]_vars

\* Every operation, called for one store or for an id that is no number.
Next ==
    \/ PredictDemand(OneStore)
    \/ GetHistoricalSales(OneStore)
    \/ AnalyzeSeasonality(OneStore)
    \/ CalculateReorderPoint(OneStore)
    \/ CalculateEconomicOrderQuantity(OneStore)
    \/ CalculateStockoutRisk(OneStore)
    \/ OptimizeInventoryAllocation(OneStore)
    \/ AnalyzeInventoryTurnover(OneStore)
    \/ CalculateOptimalPrice(OneStore)
    \/ GetPricingRecommendation(OneStore)
    \/ CalculatePromotionImpact(OneStore)
    \/ RandomDraw
    \/ Discard

Spec == Init /\ [][Next]_vars

(***************************************************************************)
(* Claims about optimize_inventory_allocation (SpecAllocation).            *)
(***************************************************************************)
IsAllocation == res.op = "optimize_inventory_allocation" /\ res.error = "none"

EntriesOf(store_id) ==
    {j \in DOMAIN res.allocation : res.allocation[j].store_id = store_id}

\* C1: the allocated quantities of every allocation result sum exactly to
\* total_stock, in the demand-based and in the proportional branch.
C1_AllocationSumsToTotalStock ==
    IsAllocation => TotalAllocated(res.allocation) = res.total_stock

\* C1 witness: a proportional allocation (demand exceeds the stock) over
\* several stores in which a store got a unit of the remainder.
C1_Witness ==
    /\ IsAllocation
    /\ res.allocation_strategy = "demand_proportional"
    /\ Len(res.allocation) >= 2
    /\ \E j \in DOMAIN res.allocation :
         res.allocation[j].allocation >
             FloorShare(res.total_stock, res.allocation[j].demand, res.total_demand)

C20_ExtraUnitsGoToLowestCoverage ==
    (IsAllocation /\ res.total_demand > res.total_stock) =>
        LET a == res.allocation
            Initial(k) == (res.total_stock * a[k].demand) \div res.total_demand
            \* the initial coverage of entry k as a fraction
            Num(k) == IF a[k].demand > 0 THEN Initial(k) ELSE 1
            Den(k) == IF a[k].demand > 0 THEN a[k].demand ELSE 1
        IN  /\ \A k \in DOMAIN a : a[k].allocation \in {Initial(k), Initial(k) + 1}
            /\ \A k, l \in DOMAIN a :
                  (a[k].allocation > Initial(k) /\ a[l].allocation = Initial(l)) =>
                      Num(k) * Den(l) <= Num(l) * Den(k)
            /\ (res.total_stock = 50 /\ Len(a) = 2 /\ a[1].demand = 30 /\ a[2].demand = 30) =>
                  a[1].allocation = 25 /\ a[2].allocation = 25

IsReorderPoint == res.op = "calculate_reorder_point" /\ res.error = "none"

\* C4: in every successful result of calculate_reorder_point the reorder
\* point is at least the lead time demand avg_daily_demand * lead_time_days,
\* and the safety stock is not negative.
C4_ReorderPointCoversLeadTimeDemand ==
    IsReorderPoint =>
        /\ res.lead_time_demand100 =
               res.args.forecast.avg_daily_demand100 * res.args.lead_time_days
        /\ res.reorder_point * 100 >= res.lead_time_demand100
        /\ res.safety_stock100 >= 0

\* C4 witness: a successful result with a lead time of several days, a
\* fractional lead time demand and a positive safety stock.
C4_Witness ==
    /\ IsReorderPoint
    /\ res.args.lead_time_days >= 2
    /\ res.lead_time_demand100 % 100 # 0
    /\ res.safety_stock100 > 0
    /\ res.reorder_point * 100 > res.lead_time_demand100

\* The result of the same call with another service level.
WithServiceLevel(service_level1000) ==
    calculate_reorder_point(res.args.product_id, res.args.store_id,
                            res.args.lead_time_days, service_level1000, res.args.forecast)

\* C5: for the same product, store and lead time, the safety factor and the
\* safety stock computed for a service level in (0,1) are not greater than
\* those computed for any higher service level in (0,1).
C5_SafetyStockMonotonic ==
    (IsReorderPoint /\ res.args.service_level1000 > 0) =>
        \A s2 \in ServiceLevels :
            (res.args.service_level1000 < s2 /\ s2 < 1000) =>
                /\ res.safety_factor100 <= WithServiceLevel(s2).safety_factor100
                /\ res.safety_stock100 <= WithServiceLevel(s2).safety_stock100

\* C5 witness: a successful result for a service level in (0,1) whose
\* safety stock is positive and smaller than that of a higher level.
C5_Witness ==
    /\ IsReorderPoint
    /\ res.args.service_level1000 > 0
    /\ res.safety_stock100 > 0
    /\ \E s2 \in ServiceLevels :
          /\ res.args.service_level1000 < s2 /\ s2 < 1000
          /\ res.safety_stock100 < WithServiceLevel(s2).safety_stock100


\* C22: reorder_point is the ceiling of avg_daily_demand * lead_time_days
\* + z * demand_std_dev * sqrt(lead_time_days), z being 1.65 for a service
\* level of 0.95; an average of 10 a day, a standard deviation of 2, a lead
\* time of 4 days and a service level of 0.95 give a lead time demand of
\* 40, a safety stock of 6.6 and a reorder point of 47.
C22_ReorderPointIsCeilingOfDemandPlusSafety ==
    IsReorderPoint =>
        LET lead == res.args.lead_time_days
            forecast == res.args.forecast
            b == res.safety_factor100 * forecast.std_dev100
            \* reorder_point - lead time demand, in 1/10000
            y == res.reorder_point * 10000 - forecast.avg_daily_demand100 * lead * 100
        IN  /\ res.args.service_level1000 = 950 => res.safety_factor100 = 165
            /\ res.lead_time_demand100 = forecast.avg_daily_demand100 * lead
            /\ y >= 0 /\ ~BelowMulSqrt(y, b, lead)
            /\ y < 10000 \/ BelowMulSqrt(y - 10000, b, lead)
            /\ (forecast.avg_daily_demand100 = 1000 /\ forecast.std_dev100 = 200
                  /\ lead = 4 /\ res.args.service_level1000 = 950) =>
                  /\ res.lead_time_demand100 = 4000
                  /\ res.safety_stock100 = 660
                  /\ res.reorder_point = 47

\* C22 witness: the result for an average of 10 a day, a standard deviation
\* of 2, a lead time of 4 days and a service level of 0.95.
C22_Witness ==
    /\ IsReorderPoint
    /\ res.args.forecast.avg_daily_demand100 = 1000
    /\ res.args.forecast.std_dev100 = 200
    /\ res.args.lead_time_days = 4
    /\ res.args.service_level1000 = 950
    /\ res.reorder_point = 47
(***************************************************************************)
(* Claims about calculate_economic_order_quantity (SpecEoq).               *)
(***************************************************************************)
IsEoqCall == res.op = "calculate_economic_order_quantity"

IsEoq == IsEoqCall /\ res.error = "none"

\* C6: called with a holding cost per unit <= 0, the operation returns an
\* error record that carries no EOQ field, and raises nothing.
C6_NoHoldingCostIsAnError ==
    (IsEoqCall /\ res.args.holding_cost_pct100 <= 0) =>
        /\ res.exc = "none"
        /\ res.error # "none"
        /\ DOMAIN res = {"op", "args", "exc", "caught", "error"}

\* C6 witness: a call with a negative holding cost, a successful forecast
\* with demand and a negative order cost, answered with the holding cost
\* error.
C6_Witness ==
    /\ IsEoqCall
    /\ res.args.holding_cost_pct100 < 0
    /\ res.args.order_cost < 0
    /\ ~res.args.forecast.error
    /\ res.args.forecast.avg_daily_demand100 > 0
    /\ res.args.days > 0
    /\ res.error = "Holding cost must be greater than zero"

\* C7: every successful result carries an eoq >= 1 that is the ceiling of
\* sqrt(2 * D * S / H), and a call whose annual demand or order cost is 0
\* returns an error record.
C7_EoqIsPositive ==
    /\ IsEoq =>
          LET num == 2 * res.args.forecast.avg_daily_demand100 * res.args.days
                       * res.args.order_cost
              den == res.args.holding_cost_pct100 * 100
          IN  /\ res.eoq >= 1
              /\ res.eoq * res.eoq * den >= num
              /\ (res.eoq - 1) * (res.eoq - 1) * den < num
    /\ (IsEoqCall /\ (res.args.order_cost = 0
                        \/ res.args.forecast.avg_daily_demand100 * res.args.days = 0)) =>
          res.error # "none"

\* C7 witness: a call with a positive holding cost and annual demand but no
\* order cost, whose division by the order quantity 0 was caught.
C7_Witness ==
    /\ IsEoqCall
    /\ res.args.holding_cost_pct100 > 0
    /\ res.args.order_cost = 0
    /\ ~res.args.forecast.error
    /\ res.args.forecast.avg_daily_demand100 * res.args.days > 0
    /\ res.caught = "ZeroDivisionError"
    /\ res.error = "Failed to calculate EOQ"

(***************************************************************************)
(* Claims about calculate_stockout_risk (SpecStockoutRisk).                *)
(***************************************************************************)
IsStockoutRisk == res.op = "calculate_stockout_risk" /\ res.error = "none"

\* C8: the stockout probability computed by calculate_stockout_risk lies in
\* [0,1]; when the standard deviation of the forecast is 0 it is 1 if
\* current_stock is below the total forecast demand and 0 otherwise.
C8_StockoutProbabilityInUnitInterval ==
    IsStockoutRisk =>
        /\ res.stockout_probability1000 \in 0..1000
        /\ res.args.forecast.std_dev100 = 0 =>
              res.stockout_probability1000 =
                  IF res.args.current_stock < res.args.forecast.total_demand
                  THEN 1000 ELSE 0

\* C8 witness: a result for a forecast without variance whose total demand
\* is positive and equal to the current stock, with probability 0.
C8_Witness ==
    /\ IsStockoutRisk
    /\ res.args.forecast.std_dev100 = 0
    /\ res.args.forecast.total_demand > 0
    /\ res.args.current_stock = res.args.forecast.total_demand
    /\ res.stockout_probability1000 = 0


\* C17: risk_level is high exactly when the stockout probability is > 0.7,
\* medium exactly when it is > 0.3 and <= 0.7, and low otherwise; it takes
\* no other value.
C17_RiskLevelFollowsProbability ==
    IsStockoutRisk =>
        /\ res.risk_level \in {"high", "medium", "low"}
        /\ res.risk_level = "high" <=> res.stockout_probability1000 > 700
        /\ res.risk_level = "medium" <=>
              (res.stockout_probability1000 > 300 /\ res.stockout_probability1000 <= 700)

\* C17 witness: a result of medium risk, for a forecast with variance and a
\* stock less than one standard deviation below the demand.
C17_Witness ==
    /\ IsStockoutRisk
    /\ res.args.forecast.std_dev100 > 0
    /\ res.args.current_stock < res.args.forecast.total_demand
    /\ res.stockout_probability1000 = 500
    /\ res.risk_level = "medium"

\* C18 as claimed: at z = 0, that is for a forecast with variance and a
\* current stock equal to the total forecast demand, the stockout
\* probability is about 0.5 (here: between 0.4 and 0.6).
C18_HalfProbabilityAtZeroZ ==
    (IsStockoutRisk /\ res.args.forecast.std_dev100 > 0
        /\ res.args.current_stock = res.args.forecast.total_demand) =>
        res.stockout_probability1000 \in 400..600


\* C23: for the same forecast and horizon, the stockout probability
\* computed for a current stock is not below the one computed for any
\* higher current stock, and neither is the risk level (low, medium, high).
C23_MoreStockIsNoMoreRisk ==
    IsStockoutRisk =>
        LET Rank(level) == CASE level = "low" -> 0 [] level = "medium" -> 1 [] OTHER -> 2
        IN  \A stock2 \in Stocks :
                stock2 > res.args.current_stock =>
                    LET more == calculate_stockout_risk(res.args.product_id,
                                                        res.args.store_id, stock2,
                                                        res.args.days, res.args.forecast)
                    IN  /\ more.error = "none"
                        /\ more.stockout_probability1000 <= res.stockout_probability1000
                        /\ Rank(more.risk_level) <= Rank(res.risk_level)

\* C23 witness: a result of high risk for a forecast with variance, for
\* which one higher stock gives medium and another gives low risk.
C23_Witness ==
    /\ IsStockoutRisk
    /\ res.args.forecast.std_dev100 > 0
    /\ res.risk_level = "high"
    /\ \E stock2, stock3 \in Stocks :
          /\ res.args.current_stock < stock2 /\ stock2 < stock3
          /\ calculate_stockout_risk(res.args.product_id, res.args.store_id, stock2,
                                     res.args.days, res.args.forecast).risk_level = "medium"
          /\ calculate_stockout_risk(res.args.product_id, res.args.store_id, stock3,
                                     res.args.days, res.args.forecast).risk_level = "low"
(***************************************************************************)
(* Claims about all operations (Spec).                                     *)
(***************************************************************************)
Operations ==
    {"predict_demand", "get_historical_sales", "analyze_seasonality",
     "calculate_reorder_point", "calculate_economic_order_quantity",
     "calculate_stockout_risk", "optimize_inventory_allocation",
     "analyze_inventory_turnover", "calculate_optimal_price",
     "get_pricing_recommendation", "calculate_promotion_impact"}

\* C9: no operation of the forecasting, inventory and pricing modules lets
\* an exception reach its caller: an exception raised in its body is caught
\* and returned as a record with an error.
C9_NoExceptionPropagates ==
    res.op \in Operations =>
        /\ res.exc = "none"
        /\ res.caught # "none" => res.error # "none"

\* C9 witness: a call of calculate_economic_order_quantity whose division
\* by zero was caught and returned as an error.
C9_Witness ==
    /\ res.op = "calculate_economic_order_quantity"
    /\ res.caught = "ZeroDivisionError"
    /\ res.exc = "none"
    /\ res.error # "none"

(***************************************************************************)
(* Claims about the forecaster (SpecForecast).                             *)
(***************************************************************************)
IsForecast(r) == r.op = "predict_demand" /\ r.error = "none"

\* C10: two calls of predict_demand with the same product_id, store_id and
\* days return the same daily demand values and the same summary
\* statistics, whatever was drawn from the generator between them.
C10_PredictDemandIsRepeatable ==
    (IsForecast(prev) /\ res.op = "predict_demand" /\ res.args = prev.args) =>
        /\ res.error = "none"
        /\ res.daily_predictions = prev.daily_predictions
        /\ res.total_demand = prev.total_demand
        /\ res.avg_daily_demand100 = prev.avg_daily_demand100
        /\ res.std_dev100 = prev.std_dev100

\* C10 witness: a kept forecast of several days and a later forecast for
\* the same arguments, equal to it, whose daily values differ among
\* themselves.
C10_Witness ==
    /\ IsForecast(prev)
    /\ IsForecast(res)
    /\ res.args = prev.args
    /\ res.args.days >= 2
    /\ res.daily_predictions = prev.daily_predictions
    /\ res.daily_predictions[1].demand10 # res.daily_predictions[2].demand10

\* C12 as claimed: predict_demand called for a product and a store with
\* days <= 0, days = 0 as well as days < 0, returns a result that is no
\* error and whose sequence of daily predictions is empty.
C12_NoHorizonGivesEmptyForecast ==
    (res.op = "predict_demand" /\ ValidIds(res.args.product_id, res.args.store_id)
        /\ res.args.days <= 0) =>
        /\ res.error = "none"
        /\ res.daily_predictions = <<>>


\* C24: for a product, a store and a horizon of N >= 1 days, predict_demand
\* returns exactly N daily predictions, numbered 1..N in this order, and no
\* predicted demand is negative.
C24_OnePredictionPerDay ==
    (res.op = "predict_demand" /\ ValidIds(res.args.product_id, res.args.store_id)
        /\ res.args.days >= 1) =>
        /\ res.error = "none"
        /\ Len(res.daily_predictions) = res.args.days
        /\ \A i \in DOMAIN res.daily_predictions :
              /\ res.daily_predictions[i].day = i
              /\ res.daily_predictions[i].demand10 >= 0

\* C24 witness: a forecast of several days with a day whose demand was
\* clamped to 0 and a day with demand.
C24_Witness ==
    /\ IsForecast(res)
    /\ res.args.days >= 2
    /\ \E i, j \in DOMAIN res.daily_predictions :
          /\ res.daily_predictions[i].demand10 = 0
          /\ res.daily_predictions[j].demand10 > 0

\* C25 as claimed: whatever weekday (0: Monday) the forecast starts on,
\* the demand of every forecast point is computed with the weekend factor
\* if the date of the point is a Saturday or a Sunday and with the weekday
\* factor otherwise.
C25_WeekendFollowsTheDate ==
    IsForecast(res) =>
        LET g0 == PredictDemandSeed(RngInit, res.args.product_id, res.args.store_id)
            params == DrawParameters(g0, -10, 20, 10, 40, 5, 20)
        IN  \A today \in Weekdays :
                \A i \in DOMAIN res.daily_predictions :
                    res.daily_predictions[i].demand10 =
                        RoundedDemand(DayDemand(params, i - 1, (today + i - 1) % 7 >= 5,
                                                RandomNormal(RandomSkip(g0, 3 + i))))
(***************************************************************************)
(* Claims about forecaster calls made from worker threads (SpecThreads).   *)
(***************************************************************************)
\* C11 as claimed: under every interleaving of forecaster calls for
\* different (product, store) pairs, each call returns the same demand
\* sequence as it returns when it is run alone.
C11_ConcurrentCallsReturnAsAlone ==
    \A t \in Threads :
        LET c == calls[t]
            alone == predict_demand(RngInit, c.product_id, c.store_id, c.days)
            own_pair ==
                \A u \in Threads \ {t} :
                    \/ calls[u].pc = "idle"
                    \/ <<calls[u].product_id, calls[u].store_id>>
                           # <<c.product_id, c.store_id>>
        IN  (c.pc = "done" /\ own_pair /\ c.result.error = "none") =>
                c.result.daily_predictions = alone.daily_predictions

\* C27: for the same product and store, the daily demands of a forecast
\* over M days, 1 <= M <= N, are the first M daily demands of the forecast
\* over N days.
C27_ShorterForecastIsPrefix ==
    (IsForecast(res) /\ res.args.days >= 1) =>
        \A M \in 1..res.args.days :
            LET shorter == predict_demand(rng, res.args.product_id, res.args.store_id, M)
            IN  /\ shorter.error = "none"
                /\ Len(shorter.daily_predictions) = M
                /\ \A i \in 1..M :
                       shorter.daily_predictions[i].demand10
                           = res.daily_predictions[i].demand10

\* A forecast over a week whose first days differ in demand.
C27_Witness ==
    /\ IsForecast(res)
    /\ res.args.days = WeekLength
    /\ res.daily_predictions[1].demand10 # res.daily_predictions[2].demand10
    /\ res.daily_predictions[2].demand10 # res.daily_predictions[3].demand10

(***************************************************************************)
(* Claims about price_optimizer.py (Spec).  A pricing call is in the       *)
(* claims' case when its ids are numbers, its current price is positive    *)
(* and its 30-day forecast succeeded.                                      *)
(***************************************************************************)
\* C13 as claimed: the optimal price is marginal_cost / (1 + 1 / elasticity),
\* floored at marginal_cost * 1.1 (180 for a marginal cost of 60 and an
\* elasticity of -1.5); the marginal cost is the code's estimated cost.
C13_OptimalPriceIsMarkupOverCost ==
    (res.op = "calculate_optimal_price"
        /\ ValidIds(res.args.product_id, res.args.store_id)
        /\ res.args.current_price > 0 /\ ~res.args.forecast.error) =>
        LET metrics == IF res.args.metrics.found THEN res.args.metrics ELSE DefaultMetrics
            cost100 == res.args.current_price * (100 - metrics.margin_target100)
            markup100 == (cost100 * metrics.elasticity100) \div (metrics.elasticity100 + 100)
        IN  /\ res.error = "none"
            /\ res.optimal_price100 = Max(markup100, (cost100 * 11) \div 10)

\* C14 as claimed: among the evaluated candidate prices of maximal expected
\* profit, the one returned as optimal is nearest to the current price.
C14_TiesGoToPriceNearestCurrent ==
    (res.op = "calculate_optimal_price"
        /\ ValidIds(res.args.product_id, res.args.store_id)
        /\ res.args.current_price > 0 /\ ~res.args.forecast.error) =>
        LET Deviation(price100) ==
                IF price100 >= res.args.current_price * 100
                THEN price100 - res.args.current_price * 100
                ELSE res.args.current_price * 100 - price100
        IN  /\ res.error = "none"
            /\ \A i \in DOMAIN res.evaluations :
                  /\ res.evaluations[i].expected_profit100 <= res.expected_profit100
                  /\ res.evaluations[i].expected_profit100 = res.expected_profit100 =>
                        Deviation(res.optimal_price100)
                            <= Deviation(res.evaluations[i].price100)

\* C15 as claimed: calculate_promotion_impact returns the adjusted profit
\* delta (promo profit - base profit) - 0.30 * (promo demand - base demand)
\* * (current price - cost), and flags the promotion as profitable exactly
\* when that delta is positive.
C15_PromotionProfitableIffAdjustedDeltaPositive ==
    (res.op = "calculate_promotion_impact"
        /\ ValidIds(res.args.product_id, res.args.store_id)
        /\ res.args.current_price > 0 /\ ~res.args.forecast.error) =>
        LET metrics == IF res.args.metrics.found THEN res.args.metrics ELSE DefaultMetrics
            margin100 == res.args.current_price * metrics.margin_target100
        IN  /\ res.error = "none"
            /\ res.adjusted_profit_impact100 * 10 =
                   res.profit_impact100 * 10
                       - 3 * (res.expected_demand - res.base_demand) * margin100
            /\ res.is_profitable = (res.adjusted_profit_impact100 > 0)

\* C19 as claimed: calculate_optimal_price and calculate_promotion_impact,
\* called with a positive current price when the 30-day forecast succeeds,
\* return a result that is no error; its base demand is the sum of the 30
\* daily demand values of the forecast.
C19_PricingUsesForecastDemand ==
    (res.op \in {"calculate_optimal_price", "calculate_promotion_impact"}
        /\ ValidIds(res.args.product_id, res.args.store_id)
        /\ res.args.current_price > 0 /\ ~res.args.forecast.error) =>
        LET forecast == predict_demand(RngInit, res.args.product_id, res.args.store_id,
                                       PricingDays)
        IN  /\ res.error = "none"
            /\ res.base_demand10 =
                   SumSeq([i \in 1..PricingDays |-> forecast.daily_predictions[i].demand10])

\* C30 as claimed: with the default pricing metrics (elasticity -1.5,
\* promotion boost 1.5, margin target 0.3, cannibalization 0.3),
\* calculate_promotion_impact never reports is_profitable = true for a
\* discount_pct in [0, 1]; a discount of zero yields a profit impact of 0
\* and is_profitable = false.
C30_DefaultPromotionIsNeverProfitable ==
    (res.op = "calculate_promotion_impact"
        /\ ValidIds(res.args.product_id, res.args.store_id)
        /\ res.args.current_price > 0 /\ ~res.args.forecast.error
        /\ res.args.metrics \in {NoMetrics, DefaultMetrics}
        /\ res.args.discount_pct100 \in 0..100) =>
        /\ res.error = "none" => ~res.is_profitable
        /\ res.args.discount_pct100 = 0 =>
              /\ res.error = "none"
              /\ res.profit_impact100 = 0
              /\ ~res.is_profitable

(***************************************************************************)
(* Claims about analyze_inventory_turnover (Spec).                         *)
(***************************************************************************)
\* C16: a successful result of analyze_inventory_turnover reports the
\* ratio avg_daily_demand * 365 / current_stock, to two decimals, and no
\* ratio when current_stock is 0; its rating is excellent for a ratio > 12,
\* good for a ratio > 6, average for a ratio > 3 and poor for a ratio > 0.
C16_TurnoverRatioAndRating ==
    (res.op = "analyze_inventory_turnover" /\ res.error = "none") =>
        LET annual100 == res.avg_daily_demand100 * 365
            stock == res.current_stock
            ratio100 == res.inventory_turnover_ratio100
        IN  /\ stock = 0 => ratio100 = NoneValue
            /\ stock > 0 =>
                  /\ 2 * (ratio100 * stock - annual100) <= stock
                  /\ 2 * (annual100 - ratio100 * stock) <= stock
                  /\ annual100 > 1200 * stock => res.turnover_rating = "excellent"
                  /\ (annual100 > 600 * stock /\ annual100 <= 1200 * stock) =>
                        res.turnover_rating = "good"
                  /\ (annual100 > 300 * stock /\ annual100 <= 600 * stock) =>
                        res.turnover_rating = "average"
                  /\ (annual100 > 0 /\ annual100 <= 300 * stock) =>
                        res.turnover_rating = "poor"

\* C16 witness: a result rated good, whose ratio is no whole number.
C16_Witness ==
    /\ res.op = "analyze_inventory_turnover" /\ res.error = "none"
    /\ res.current_stock > 0
    /\ res.turnover_rating = "good"
    /\ res.inventory_turnover_ratio100 % 100 # 0

\* C28: a successful result of analyze_inventory_turnover for a
\* current_stock <= 0 has no inventory_turnover_ratio, days_of_supply 0 and
\* the rating excellent; the rating is unknown only when current_stock > 0
\* and the ratio is <= 0.
C28_NoStockIsRatedExcellent ==
    (res.op = "analyze_inventory_turnover" /\ res.error = "none") =>
        /\ res.current_stock <= 0 =>
              /\ res.inventory_turnover_ratio100 = NoneValue
              /\ res.days_of_supply10 = 0
              /\ res.turnover_rating = "excellent"
        /\ res.turnover_rating = "unknown" =>
              /\ res.current_stock > 0
              /\ res.args.forecast.avg_daily_demand100 * 365 <= 0

\* C28 witness: a result for a stock that is not positive and a forecast of
\* no demand.
C28_Witness ==
    /\ res.op = "analyze_inventory_turnover" /\ res.error = "none"
    /\ res.current_stock <= 0
    /\ res.args.forecast.avg_daily_demand100 = 0
    /\ res.turnover_rating = "excellent"

====
